---- MODULE Spec2Model ----
(***************************************************************************)
(* Model of geometryHelpers.py: unitNormalToBoth, signedAngle, Circle3D    *)
(* and Arc3D.                                                              *)
(*                                                                         *)
(* Numbers.  The code computes in floating point; the model computes       *)
(* exactly in the field Q(sqrt 3): a number is a triple <<p, q, d>> that   *)
(* stands for (p + q*sqrt(3)) / d, with d > 0 and gcd(p, q, d) = 1.  It    *)
(* holds the cosines and sines of all multiples of pi/6, so circles and    *)
(* arcs sampled at multiples of 30 degrees are computed without rounding.  *)
(* The triple with d = 0 is NaN (the outcome of 0/0); it propagates        *)
(* through every operation and every comparison with it is false, as in    *)
(* IEEE arithmetic.                                                        *)
(*                                                                         *)
(* Angles are integers counting units of pi/6 (Pi = 6 units).              *)
(***************************************************************************)
EXTENDS Integers, Sequences, FiniteSets, TLC

VARIABLES
    obj,      \* the Circle3D / Arc3D object of this run, or NoObj
    op,       \* the last operation called, with its arguments
    ret,      \* what the last operation returned or raised
    nsSeed    \* which basis scipy.linalg.null_space returns (fixed per run)

vars == <<obj, op, ret, nsSeed>>

----------------------------------------------------------------------------
(* Bounds of the model *)

\* largest magnitude of an axis-aligned input vector
MaxCoord == 2
\* largest circle radius passed to Circle3D
MaxRadius == 2
\* sweep angles theta range over -MaxTheta..MaxTheta units of pi/6
MaxTheta == 3
\* interpolate is called with count in -1..MaxCount
MaxCount == 5
\* null_space bases are drawn from 0..MaxSeed
MaxSeed == 1

----------------------------------------------------------------------------
(* Exact arithmetic in Q(sqrt 3) with NaN *)

Abs(i) == IF i < 0 THEN -i ELSE i

RECURSIVE Gcd(_, _)
Gcd(a, b) == IF b = 0 THEN a ELSE Gcd(b, a % b)

\* the number (p + q sqrt3)/d is the triple << p, q, d >>
P(a) == a[1]
Q(a) == a[2]
D(a) == a[3]

NaN == << 0, 0, 0 >>

IsNaN(a) == D(a) = 0

\* (p + q sqrt3)/d in lowest terms with positive denominator
Q3(p, q, d) ==
    IF d = 0 THEN NaN
    ELSE LET s == IF d < 0 THEN -1 ELSE 1
             g == Gcd(Gcd(Abs(p), Abs(q)), Abs(d))
         IN  << (s * p) \div g, (s * q) \div g, (s * d) \div g >>

Num(i) == << i, 0, 1 >>

Zero == Num(0)
One == Num(1)

Add(a, b) ==
    IF IsNaN(a) \/ IsNaN(b) THEN NaN
    ELSE Q3(P(a) * D(b) + P(b) * D(a), Q(a) * D(b) + Q(b) * D(a), D(a) * D(b))

Neg(a) == << -P(a), -Q(a), D(a) >>

Sub(a, b) == Add(a, Neg(b))

Mul(a, b) ==
    IF IsNaN(a) \/ IsNaN(b) THEN NaN
    ELSE Q3(P(a) * P(b) + 3 * Q(a) * Q(b), P(a) * Q(b) + Q(a) * P(b), D(a) * D(b))

\* a > b*sqrt(3) for naturals a, b, by the continued fraction of sqrt(3):
\* no squares, so the comparison with the tolerance 1e-6 stays in range
RECURSIVE GtSqrt3(_, _)
GtSqrt3(a, b) ==
    IF b = 0 THEN a > 0
    ELSE IF a >= 2 * b THEN TRUE
    ELSE IF a <= b THEN FALSE
    ELSE ~GtSqrt3(3 * b - a, a - b)

\* sign of (p + q sqrt3)/d
Sign(a) ==
    IF IsNaN(a) THEN 0
    ELSE IF P(a) >= 0 /\ Q(a) >= 0 THEN (IF P(a) = 0 /\ Q(a) = 0 THEN 0 ELSE 1)
    ELSE IF P(a) <= 0 /\ Q(a) <= 0 THEN -1
    ELSE IF P(a) > 0 THEN (IF GtSqrt3(P(a), -Q(a)) THEN 1 ELSE -1)
    ELSE (IF GtSqrt3(-P(a), Q(a)) THEN -1 ELSE 1)

\* IEEE comparisons: false as soon as an operand is NaN
Gt(a, b) == ~IsNaN(a) /\ ~IsNaN(b) /\ Sign(Sub(a, b)) > 0
Lt(a, b) == Gt(b, a)

AbsN(a) == IF Sign(a) < 0 THEN Neg(a) ELSE a

\* a / b.  The only division by zero the code performs is of a zero vector
\* by its own zero norm, 0/0, which IEEE defines as NaN.
DivN(a, b) ==
    IF IsNaN(a) \/ IsNaN(b) \/ Sign(b) = 0 THEN NaN
    ELSE LET m == P(b) * P(b) - 3 * Q(b) * Q(b)
         IN  Q3((P(a) * P(b) - 3 * Q(a) * Q(b)) * D(b),
                (Q(a) * P(b) - P(a) * Q(b)) * D(b),
                D(a) * m)

ISqrt(n) == CHOOSE m \in 0..n : m * m <= n /\ (m + 1) * (m + 1) > n

\* the square roots Q(sqrt 3) holds: of rationals p/d with p*d or p*d/3 a square
HasSqrt(a) ==
    IF IsNaN(a) THEN TRUE
    ELSE IF Q(a) # 0 \/ P(a) < 0 THEN FALSE
    ELSE LET n == P(a) * D(a)
         IN  IF ISqrt(n) * ISqrt(n) = n THEN TRUE
             ELSE n % 3 = 0 /\ ISqrt(n \div 3) * ISqrt(n \div 3) = n \div 3

Sqrt(a) ==
    IF IsNaN(a) THEN NaN
    ELSE LET n == P(a) * D(a)
         IN  IF ISqrt(n) * ISqrt(n) = n THEN Q3(ISqrt(n), 0, D(a))
             ELSE Q3(0, ISqrt(n \div 3), D(a))

----------------------------------------------------------------------------
(* Trigonometry on multiples of pi/6 *)

\* np.pi, in units of pi/6
Pi == 6

Half == Q3(1, 0, 2)
HalfSqrt3 == Q3(0, 1, 2)

CosTable ==
    << One, HalfSqrt3, Half, Zero, Neg(Half), Neg(HalfSqrt3),
       Neg(One), Neg(HalfSqrt3), Neg(Half), Zero, Half, HalfSqrt3 >>

\* np.cos, np.sin of k*pi/6
Cos(k) == CosTable[(k % (2 * Pi)) + 1]
Sin(k) == Cos(k - 3)

\* the angles arctan2 can return, (-pi, pi], in units of pi/6
Principal == (1 - Pi)..Pi

\* k is the angle of the point (x, y): (cos k, sin k) is a positive multiple of (x, y)
IsAngleOf(k, y, x) ==
    /\ Sign(Cos(k)) = Sign(x)
    /\ Sign(Sin(k)) = Sign(y)
    /\ Mul(x, Sin(k)) = Mul(y, Cos(k))

\* arctan2(y, x) is computed exactly when the angle is a multiple of pi/6
HasArctan2(y, x) ==
    IF IsNaN(y) \/ IsNaN(x) THEN FALSE
    ELSE IF Sign(y) = 0 /\ Sign(x) = 0 THEN TRUE
    ELSE \E k \in Principal : IsAngleOf(k, y, x)

\* numpy.arctan2 on finite reals without signed zeros: the angle in (-pi, pi]
\* of the point (x, y), and 0 at the origin
arctan2(y, x) ==
    IF Sign(y) = 0 /\ Sign(x) = 0 THEN 0
    ELSE CHOOSE k \in Principal : IsAngleOf(k, y, x)

----------------------------------------------------------------------------
(* 3-vectors of numbers *)

Vec(x, y, z) == << Num(x), Num(y), Num(z) >>

NaNVec == << NaN, NaN, NaN >>

HasNaN(v) == IsNaN(v[1]) \/ IsNaN(v[2]) \/ IsNaN(v[3])

VAdd(u, v) == << Add(u[1], v[1]), Add(u[2], v[2]), Add(u[3], v[3]) >>
VSub(u, v) == << Sub(u[1], v[1]), Sub(u[2], v[2]), Sub(u[3], v[3]) >>
VNeg(v) == << Neg(v[1]), Neg(v[2]), Neg(v[3]) >>
Scale(s, v) == << Mul(s, v[1]), Mul(s, v[2]), Mul(s, v[3]) >>
VDiv(v, s) == << DivN(v[1], s), DivN(v[2], s), DivN(v[3], s) >>

\* numpy.dot
dot(u, v) == Add(Add(Mul(u[1], v[1]), Mul(u[2], v[2])), Mul(u[3], v[3]))

\* numpy.cross
cross(u, v) ==
    << Sub(Mul(u[2], v[3]), Mul(u[3], v[2])),
       Sub(Mul(u[3], v[1]), Mul(u[1], v[3])),
       Sub(Mul(u[1], v[2]), Mul(u[2], v[1])) >>

\* the vector's norm lies in Q(sqrt 3)
HasNorm(v) == HasSqrt(dot(v, v))

\* numpy.linalg.norm
norm(v) == Sqrt(dot(v, v))

IsUnit(v) == dot(v, v) = One
Orthogonal(u, v) == dot(u, v) = Zero

----------------------------------------------------------------------------
(* unitNormalToBoth and signedAngle *)

DirXY(k) == << Cos(k), Sin(k), Zero >>
DirYZ(k) == << Zero, Cos(k), Sin(k) >>
DirZX(k) == << Sin(k), Zero, Cos(k) >>

\* the unit vectors of the model: every multiple of 30 degrees in the three
\* coordinate planes, listed plane by plane
UnitDirs ==
    [i \in 1..(6 * Pi) |->
        LET k == (i - 1) % (2 * Pi)
        IN  CASE (i - 1) \div (2 * Pi) = 0 -> DirXY(k)
              [] (i - 1) \div (2 * Pi) = 1 -> DirYZ(k)
              [] OTHER -> DirZX(k)]

\* indices of the model's unit vectors lying in the null space of the rows of A
NullIdx(A) ==
    {i \in DOMAIN UnitDirs : \A j \in DOMAIN A : Orthogonal(A[j], UnitDirs[i])}

\* the model holds a unit vector of A's null space
HasNullSpace(A) == NullIdx(A) # {}

\* scipy.linalg.null_space(A)[:,0]: the first vector of an orthonormal basis of
\* the null space of A.  Which basis the SVD yields is not specified; it is a
\* fixed function of A, here the nsSeed-th unit vector of the null space.
null_space0(A) ==
    LET I == NullIdx(A)
        i == CHOOSE i \in I : Cardinality({j \in I : j < i}) = nsSeed % Cardinality(I)
    IN  UnitDirs[i]

\* unitNormalToBoth without its branch for a vanishing cross product
unitNormalToBoth_NoFallback(u, v) ==
    VDiv(cross(u, v), norm(cross(u, v)))

unitNormalToBoth(u, v) ==
    LET cp == cross(u, v)
    IN  IF Gt(norm(cp), Zero)
        THEN VDiv(cp, norm(cp))
        ELSE null_space0(<< u, v >>)

\* signedAngle that drops the sign of the rotation about n
signedAngle_Unsigned(a, b, n) ==
    LET a1 == VDiv(a, norm(a))
        b1 == VDiv(b, norm(b))
        n1 == IF Gt(norm(n), Zero) THEN VDiv(n, norm(n)) ELSE n
    IN  arctan2(AbsN(dot(cross(a1, b1), n1)), dot(a1, b1))

signedAngle(a, b, n) ==
    LET a1 == VDiv(a, norm(a))
        b1 == VDiv(b, norm(b))
        n1 == IF Gt(norm(n), Zero) THEN VDiv(n, norm(n)) ELSE n
    IN  arctan2(dot(cross(a1, b1), n1), dot(a1, b1))

\* signedAngle(a, b, n) is a multiple of pi/6
HasSignedAngle(a, b, n) ==
    LET a1 == VDiv(a, norm(a))
        b1 == VDiv(b, norm(b))
        n1 == IF Gt(norm(n), Zero) THEN VDiv(n, norm(n)) ELSE n
    IN  HasArctan2(dot(cross(a1, b1), n1), dot(a1, b1))

----------------------------------------------------------------------------
(* numpy.linspace and scipy Rotation *)

Raise(error) == [status |-> error, value |-> << >>]
Returned(v) == [status |-> "ok", value |-> v]

\* np.linspace(0, stop, num) lands on multiples of pi/6
HasLinspace(stop, num) == IF num <= 1 THEN TRUE ELSE stop % (num - 1) = 0

\* linspace that computes its step as stop / (num - 1) for every num
linspace_StepByDivision(stop, num) ==
    IF num < 0 THEN Raise("ValueError")
    ELSE IF num = 1 THEN Raise("ZeroDivisionError")
    ELSE Returned([i \in 1..num |-> ((i - 1) * stop) \div (num - 1)])

\* np.linspace(0, stop, num): num evenly spaced angles from 0 to stop
\* inclusive; the single sample of num = 1 is the start, 0; a negative num
\* raises ValueError
linspace(stop, num) ==
    IF num < 0 THEN Raise("ValueError")
    ELSE Returned([i \in 1..num |->
                     IF num = 1 THEN 0 ELSE ((i - 1) * stop) \div (num - 1)])

\* a rotation that turns by the left-hand rule
Rotation_apply_LeftHanded(rotvec, v) ==
    IF HasNaN(rotvec) \/ HasNaN(v) THEN NaNVec
    ELSE LET angle == norm(rotvec)
         IN  IF Sign(angle) = 0 THEN v
             ELSE LET k == VDiv(rotvec, angle)
                      t == P(angle) \div D(angle)
                  IN  VAdd(VSub(Scale(Cos(t), v), Scale(Sin(t), cross(k, v))),
                           Scale(Mul(dot(k, v), Sub(One, Cos(t))), k))

\* Rotation.from_rotvec(rotvec).apply(v): v turned about the axis rotvec/|rotvec|
\* by the angle |rotvec| (right-hand rule); the identity for rotvec = 0.
\* rotvec is in units of pi/6.
Rotation_apply(rotvec, v) ==
    IF HasNaN(rotvec) \/ HasNaN(v) THEN NaNVec
    ELSE LET angle == norm(rotvec)
         IN  IF Sign(angle) = 0 THEN v
             ELSE LET k == VDiv(rotvec, angle)
                      t == P(angle) \div D(angle)
                  IN  VAdd(VAdd(Scale(Cos(t), v), Scale(Sin(t), cross(k, v))),
                           Scale(Mul(dot(k, v), Sub(One, Cos(t))), k))

----------------------------------------------------------------------------
(* Circle3D and Arc3D *)

NoObj == [kind |-> "none"]

\* the points center + u @ uhat + v @ vhat, u = r cos(angle), v = r sin(angle)
CirclePoints(center, r, angle, uhat, vhat) ==
    [i \in DOMAIN angle |->
        VAdd(VAdd(center, Scale(Mul(r, Cos(angle[i])), uhat)),
             Scale(Mul(r, Sin(angle[i])), vhat))]

\* Circle3D.__init__
Circle3D(radius, center, normal) ==
    IF ~Gt(norm(normal), Zero) THEN Raise("AssertionError")
    ELSE Returned([kind |-> "circle",
                   r |-> radius,
                   c |-> center,
                   n |-> VDiv(normal, norm(normal))])

\* Circle3D.interpolate with vhat taken from the center instead of the normal
Circle3D_interpolate_CenterBasis(self, count) ==
    LET angle == linspace(2 * Pi, count)
        uhat == unitNormalToBoth(self.n, self.n)
        vhat == cross(self.c, uhat)
    IN  IF angle.status # "ok" THEN angle
        ELSE Returned(CirclePoints(self.c, self.r, angle.value, uhat, vhat))

\* Circle3D.interpolate
Circle3D_interpolate(self, count) ==
    LET angle == linspace(2 * Pi, count)
        uhat == unitNormalToBoth(self.n, self.n)
        vhat == cross(self.n, uhat)
    IN  IF angle.status # "ok" THEN angle
        ELSE Returned(CirclePoints(self.c, self.r, angle.value, uhat, vhat))

\* the tolerance of the orthogonality assertion is 1 / OrthTolInv = 0.000001
OrthTolInv == 1000000

\* Arc3D.__init__ without the orthogonality assertion
Arc3D_asserts_RadiusOnly(circleCenter, startPoint, startDir) ==
    Gt(norm(VSub(startPoint, circleCenter)), Zero)

\* the two assertions of Arc3D.__init__
Arc3D_asserts(circleCenter, startPoint, startDir) ==
    /\ Gt(norm(VSub(startPoint, circleCenter)), Zero)
    /\ Lt(AbsN(dot(startDir, VSub(startPoint, circleCenter))), Q3(1, 0, OrthTolInv))

\* Arc3D.__init__
Arc3D(circleCenter, startPoint, startDir, theta) ==
    IF ~Arc3D_asserts(circleCenter, startPoint, startDir) THEN Raise("AssertionError")
    ELSE LET startTangent == VDiv(startDir, norm(startDir))
             centerToStart == VSub(startPoint, circleCenter)
             r == norm(centerToStart)
             startNormal == VNeg(VDiv(centerToStart, r))
             binormal == cross(startTangent, startNormal)
             rot == Scale(Num(theta), binormal)
             centerToEnd == Rotation_apply(rot, centerToStart)
             endPoint == VAdd(circleCenter, centerToEnd)
             endNormal == VNeg(VDiv(centerToEnd, r))
             endTangent == cross(endNormal, binormal)
         IN  Returned([kind |-> "arc",
                       circleCenter |-> circleCenter,
                       startPoint |-> startPoint,
                       startTangent |-> startTangent,
                       theta |-> theta,
                       centerToStart |-> centerToStart,
                       r |-> r,
                       startNormal |-> startNormal,
                       binormal |-> binormal,
                       rot |-> rot,
                       centerToEnd |-> centerToEnd,
                       endPoint |-> endPoint,
                       endNormal |-> endNormal,
                       endTangent |-> endTangent])

\* Arc3D.interpolate with vhat of the opposite orientation
Arc3D_interpolate_Reversed(self, count) ==
    LET angle == linspace(self.theta, count)
        uhat == VNeg(self.startNormal)
        vhat == cross(uhat, self.binormal)
    IN  IF angle.status # "ok" THEN angle
        ELSE Returned(CirclePoints(self.circleCenter, self.r, angle.value, uhat, vhat))

\* Arc3D.interpolate
Arc3D_interpolate(self, count) ==
    LET angle == linspace(self.theta, count)
        uhat == VNeg(self.startNormal)
        vhat == cross(self.binormal, uhat)
    IN  IF angle.status # "ok" THEN angle
        ELSE Returned(CirclePoints(self.circleCenter, self.r, angle.value, uhat, vhat))

----------------------------------------------------------------------------
(* Inputs *)

AxisDirs == {DirXY(0), DirXY(3), DirXY(6), DirXY(9), DirYZ(3), DirYZ(9)}

\* directions off the axes: 30 and 120 degrees in the xy plane
TiltDirs == {DirXY(1), DirXY(4)}

\* vectors of length 0..MaxCoord along the axes and the tilted directions
InVecs == {Scale(Num(m), d) : m \in 0..MaxCoord, d \in AxisDirs \cup TiltDirs}

Centers == {Vec(0, 0, 0), Vec(1, -2, 0)}

\* integer vectors with coordinates in -1..1
Lattice == {Vec(x, y, z) : x, y, z \in -1..1}

\* argument pairs of unitNormalToBoth whose result the model holds
NormalInputs ==
    {uv \in (Lattice \cup TiltDirs) \X (Lattice \cup TiltDirs) :
        /\ HasNorm(cross(uv[1], uv[2]))
        /\ IF Gt(norm(cross(uv[1], uv[2])), Zero) THEN TRUE ELSE HasNullSpace(uv)}

\* unit vectors given to signedAngle: the xy plane in steps of 30 degrees, the
\* z axis, and two directions tilted out of the plane
AngleDirs ==
    {DirXY(k) : k \in 0..(2 * Pi - 1)} \cup {DirYZ(3), DirYZ(9), DirYZ(1), DirZX(8)}

\* argument triples of signedAngle whose result is a multiple of pi/6
AngleInputs ==
    {abn \in AngleDirs \X AngleDirs \X AngleDirs :
        HasSignedAngle(abn[1], abn[2], abn[3])}

Thetas == (-MaxTheta)..MaxTheta
Counts == (-1)..MaxCount
Seeds == 0..MaxSeed

----------------------------------------------------------------------------
(* The program: one object is constructed and sampled, or one helper called *)

Init ==
    /\ obj = NoObj
    /\ op = [name |-> "init", args |-> << >>]
    /\ ret = [status |-> "none", value |-> << >>]
    /\ nsSeed \in Seeds

Fresh == op.name = "init"

NewCircle3D(radius, center, normal) ==
    /\ Fresh
    /\ op' = [name |-> "Circle3D", args |-> << radius, center, normal >>]
    /\ ret' = Circle3D(radius, center, normal)
    /\ obj' = IF ret'.status = "ok" THEN ret'.value ELSE obj
    /\ UNCHANGED nsSeed

CallCircleInterpolate(count) ==
    /\ obj.kind = "circle"
    /\ op' = [name |-> "Circle3D.interpolate", args |-> << count >>]
    /\ ret' = Circle3D_interpolate(obj, count)
    /\ UNCHANGED << obj, nsSeed >>

NewArc3D(circleCenter, startPoint, startDir, theta) ==
    /\ Fresh
    /\ op' = [name |-> "Arc3D", args |-> << circleCenter, startPoint, startDir, theta >>]
    /\ ret' = Arc3D(circleCenter, startPoint, startDir, theta)
    /\ obj' = IF ret'.status = "ok" THEN ret'.value ELSE obj
    /\ UNCHANGED nsSeed

\* an interpolate that resumes where the previous call stopped: it moves the
\* arc's startPoint to the last point it returned
CallArcInterpolate_Advancing(count) ==
    /\ obj.kind = "arc"
    /\ op' = [name |-> "Arc3D.interpolate", args |-> << count >>]
    /\ ret' = Arc3D_interpolate(obj, count)
    /\ obj' = IF ret'.status = "ok" /\ count > 0
              THEN [obj EXCEPT !.startPoint = ret'.value[count]]
              ELSE obj
    /\ UNCHANGED nsSeed

CallArcInterpolate(count) ==
    /\ obj.kind = "arc"
    /\ op' = [name |-> "Arc3D.interpolate", args |-> << count >>]
    /\ ret' = Arc3D_interpolate(obj, count)
    /\ UNCHANGED << obj, nsSeed >>

CallUnitNormalToBoth(u, v) ==
    /\ Fresh
    /\ op' = [name |-> "unitNormalToBoth", args |-> << u, v >>]
    /\ ret' = Returned(unitNormalToBoth(u, v))
    /\ UNCHANGED << obj, nsSeed >>

CallSignedAngle(a, b, n) ==
    /\ Fresh
    /\ op' = [name |-> "signedAngle", args |-> << a, b, n >>]
    /\ ret' = Returned(signedAngle(a, b, n))
    /\ UNCHANGED << obj, nsSeed >>

\* Arc3D and signedAngle never call null_space: the basis it returns cannot
\* influence them, and their runs are explored for the first basis only
NoNullSpace == nsSeed = 0

Next ==
    \/ /\ Fresh
       /\ \E radius \in 1..MaxRadius, center \in Centers, normal \in InVecs :
             NewCircle3D(Num(radius), center, normal)
    \/ /\ obj.kind = "circle"
       /\ \E count \in Counts :
             HasLinspace(2 * Pi, count) /\ CallCircleInterpolate(count)
    \/ /\ Fresh /\ NoNullSpace
       /\ \E c \in Centers, d \in InVecs, startDir \in InVecs, theta \in Thetas :
             NewArc3D(c, VAdd(c, d), startDir, theta)
    \/ /\ obj.kind = "arc"
       /\ \E count \in Counts :
             HasLinspace(obj.theta, count) /\ CallArcInterpolate(count)
    \/ /\ Fresh
       /\ \E uv \in NormalInputs : CallUnitNormalToBoth(uv[1], uv[2])
    \/ /\ Fresh /\ NoNullSpace
       /\ \E abn \in AngleInputs : CallSignedAngle(abn[1], abn[2], abn[3])

Spec == Init /\ [][Next]_vars

----------------------------------------------------------------------------
(* Properties *)

ZeroVec == Vec(0, 0, 0)
Tolerance == Q3(1, 0, OrthTolInv)

\* the object is an arc built from a nonzero startDir: none of its fields is NaN
ValidArc == obj.kind = "arc" /\ ~HasNaN(obj.startTangent)

\* C1: Arc3D construction fails, producing no object, exactly when startPoint
\* equals circleCenter or |startDir . (startPoint - circleCenter)| is not below
\* the tolerance 1e-6; every other construction succeeds.
C1_ArcPrecondition ==
    op.name = "Arc3D" =>
        LET c == op.args[1]
            sp == op.args[2]
            sd == op.args[3]
            rejected == sp = c \/ Sign(Sub(AbsN(dot(sd, VSub(sp, c))), Tolerance)) >= 0
        IN  IF rejected
            THEN ret.status = "AssertionError" /\ obj.kind = "none"
            ELSE ret.status = "ok" /\ obj.kind = "arc"

\* the spec's example: startDir parallel to the radius vector is rejected
C1_Witness ==
    /\ op.name = "Arc3D"
    /\ op.args[1] = ZeroVec /\ op.args[2] = Vec(1, 0, 0) /\ op.args[3] = Vec(1, 0, 0)
    /\ ret.status = "AssertionError"
    /\ obj.kind = "none"

\* C2 as stated: for every count >= 1 the first sample of a valid arc is
\* startPoint and the last is endPoint.
C2_FirstAndLast ==
    (op.name = "Arc3D.interpolate" /\ op.args[1] >= 1 /\ ValidArc) =>
        /\ ret.value[1] = obj.startPoint
        /\ ret.value[op.args[1]] = obj.endPoint

\* C2 amended: the first sample is startPoint for every count >= 1, and the
\* last sample is endPoint for every count >= 2.
C2_FirstAndLastFromTwo ==
    (op.name = "Arc3D.interpolate" /\ op.args[1] >= 1 /\ ValidArc) =>
        /\ ret.value[1] = obj.startPoint
        /\ op.args[1] >= 2 => ret.value[op.args[1]] = obj.endPoint

\* an arc swept by a negative angle, sampled at three or more points, ends at
\* its endPoint, which is not its startPoint
C2_Witness ==
    /\ op.name = "Arc3D.interpolate" /\ op.args[1] >= 3 /\ ValidArc
    /\ obj.theta < 0
    /\ obj.endPoint # obj.startPoint
    /\ ret.value[op.args[1]] = obj.endPoint

C3_Example ==
    /\ op.name = "Arc3D"
    /\ op.args = << ZeroVec, Vec(1, 0, 0), Vec(0, 0, 1), 3 >>

\* C3 as stated: the example arc (center 0, start (1,0,0), startDir (0,0,1),
\* theta = pi/2) ends at (0,1,0) or (0,-1,0).
C3_EndOnYAxis ==
    C3_Example => obj.kind = "arc" /\ obj.endPoint \in {Vec(0, 1, 0), Vec(0, -1, 0)}

\* C3 amended: the example arc ends at (0,0,1), a quarter turn from (1,0,0)
\* towards startDir.
C3_EndOnZAxis ==
    C3_Example => obj.kind = "arc" /\ obj.endPoint = Vec(0, 0, 1)

C3_Witness == C3_Example /\ ret.status = "ok" /\ obj.endPoint = Vec(0, 0, 1)

\* C4: a zero-length normal (Circle3D) or startDir (Arc3D) is rejected by the
\* constructor, and no object holding a NaN direction is ever produced.
C4_ZeroDirectionRejected ==
    /\ (op.name = "Circle3D" /\ op.args[3] = ZeroVec) =>
           ret.status = "AssertionError" /\ obj.kind = "none"
    /\ (op.name = "Arc3D" /\ op.args[3] = ZeroVec) =>
           ret.status = "AssertionError" /\ obj.kind = "none"
    /\ obj.kind = "circle" => ~HasNaN(obj.n)
    /\ obj.kind = "arc" => ~HasNaN(obj.startTangent)

\* C5: unitNormalToBoth(u, v) is a unit vector orthogonal to u and to v; when
\* u x v is nonzero it is (u x v)/|u x v| and unitNormalToBoth(v, u) is its
\* negation.
C5_UnitNormal ==
    op.name = "unitNormalToBoth" =>
        LET u == op.args[1]
            v == op.args[2]
            w == ret.value
        IN  /\ IsUnit(w)
            /\ Orthogonal(w, u)
            /\ Orthogonal(w, v)
            /\ cross(u, v) # ZeroVec =>
                  /\ Scale(norm(cross(u, v)), w) = cross(u, v)
                  /\ unitNormalToBoth(v, u) = VNeg(w)

\* a colinear nonzero pair, answered by the null-space branch
C5_Witness ==
    /\ op.name = "unitNormalToBoth"
    /\ op.args[1] = Vec(1, 1, 0) /\ op.args[2] = Vec(-1, -1, 0)
    /\ IsUnit(ret.value)
    /\ Orthogonal(ret.value, op.args[1])

\* C6 as stated: -signedAngle(a, b, n) = signedAngle(b, a, n) for all unit
\* a, b, n, and signedAngle(a, a, n) = 0.
C6_Antisymmetric ==
    op.name = "signedAngle" =>
        /\ ret.value \in Principal
        /\ -ret.value = signedAngle(op.args[2], op.args[1], op.args[3])
        /\ op.args[1] = op.args[2] => ret.value = 0

\* C6 amended: -signedAngle(a, b, n) = signedAngle(b, a, n) whenever
\* signedAngle(a, b, n) is not pi, and signedAngle(a, a, n) = 0.
C6_AntisymmetricBelowPi ==
    op.name = "signedAngle" =>
        /\ ret.value \in Principal
        /\ ret.value # Pi =>
              -ret.value = signedAngle(op.args[2], op.args[1], op.args[3])
        /\ op.args[1] = op.args[2] => ret.value = 0

\* a nonzero angle about an axis n that is orthogonal to neither a nor b
C6_Witness ==
    /\ op.name = "signedAngle"
    /\ ret.value \notin {0, Pi}
    /\ ~Orthogonal(op.args[3], op.args[1])
    /\ ~Orthogonal(op.args[3], op.args[2])
    /\ -ret.value = signedAngle(op.args[2], op.args[1], op.args[3])

\* C7: every point p sampled from a circle satisfies |p - c| = r and
\* (p - c) . n = 0, and the sampling basis uhat, vhat is orthonormal and
\* orthogonal to n.
C7_OnCircle ==
    (op.name = "Circle3D.interpolate" /\ ret.status = "ok") =>
        LET uhat == unitNormalToBoth(obj.n, obj.n)
            vhat == cross(obj.n, uhat)
        IN  /\ IsUnit(uhat) /\ IsUnit(vhat)
            /\ Orthogonal(uhat, vhat)
            /\ Orthogonal(uhat, obj.n) /\ Orthogonal(vhat, obj.n)
            /\ \A i \in DOMAIN ret.value :
                  LET q == VSub(ret.value[i], obj.c)
                  IN  /\ HasNorm(q)
                      /\ norm(q) = obj.r
                      /\ Orthogonal(q, obj.n)

\* the spec's example: Circle3D(2, (0,0,0), (0,0,1)).interpolate(4)
C7_Witness ==
    /\ op.name = "Circle3D.interpolate" /\ op.args[1] = 4
    /\ obj.r = Num(2) /\ obj.c = ZeroVec /\ obj.n = Vec(0, 0, 1)
    /\ Len(ret.value) = 4
    /\ \A i \in 1..4 : ret.value[i][3] = Zero /\ dot(ret.value[i], ret.value[i]) = Num(4)

Interpolating == op.name \in {"Circle3D.interpolate", "Arc3D.interpolate"}

\* C8: interpolate(count) with count >= 0 does not fail and returns exactly
\* count points.
C8_CountPoints ==
    (Interpolating /\ op.args[1] >= 0) =>
        /\ ret.status = "ok"
        /\ Len(ret.value) = op.args[1]

\* interpolate(0) on an arc returns the empty sequence
C8_Witness ==
    /\ op.name = "Arc3D.interpolate" /\ op.args[1] = 0
    /\ ret.status = "ok" /\ ret.value = << >>

\* C9: every constructed arc has r > 0, a right-handed orthonormal start frame
\* (startTangent, startNormal, binormal) and the same frame at its end, with
\* |endPoint - circleCenter| = r; for theta = 0 the end frame is the start frame.
C9_Frames ==
    obj.kind = "arc" =>
        /\ Gt(obj.r, Zero)
        /\ IsUnit(obj.startTangent) /\ IsUnit(obj.startNormal) /\ IsUnit(obj.binormal)
        /\ Orthogonal(obj.startTangent, obj.startNormal)
        /\ Orthogonal(obj.startTangent, obj.binormal)
        /\ Orthogonal(obj.startNormal, obj.binormal)
        /\ obj.binormal = cross(obj.startTangent, obj.startNormal)
        /\ IsUnit(obj.endTangent) /\ IsUnit(obj.endNormal)
        /\ Orthogonal(obj.endTangent, obj.endNormal)
        /\ Orthogonal(obj.endTangent, obj.binormal)
        /\ Orthogonal(obj.endNormal, obj.binormal)
        /\ cross(obj.endTangent, obj.endNormal) = obj.binormal
        /\ norm(VSub(obj.endPoint, obj.circleCenter)) = obj.r
        /\ obj.theta = 0 =>
              /\ obj.endPoint = obj.startPoint
              /\ obj.endNormal = obj.startNormal
              /\ obj.endTangent = obj.startTangent

\* C10: interpolate leaves every attribute of the object unchanged, and a call
\* repeated with the same count returns the same points.
C10_Stateless ==
    [][(obj.kind # "none") =>
          /\ obj' = obj
          /\ (op'.name = op.name /\ op'.args = op.args) => ret' = ret]_vars

\* a circle sampled at three or more points
C10_Witness ==
    /\ op.name = "Circle3D.interpolate"
    /\ ret.status = "ok"
    /\ Len(ret.value) >= 3

====
